---- MODULE Spec2Model ----
(***************************************************************************)
(* A model of the behaviour scripts of the accessible widget library:      *)
(* the modal controller (src/src/Modal.astro), the accordion controller    *)
(* (src/src/Accordion.astro), the dark-mode controller                     *)
(* (src/src/DarkMode.astro) and the skip link (src/src/SkipLinks.astro).   *)
(* Each widget is an independent script, so each has its own specification *)
(* (SpecModal, SpecAccordion, SpecDarkMode, SpecSkipLinks) over its own    *)
(* variables; the other widgets' variables stay at their idle value.       *)
(*                                                                         *)
(* DOM conventions used throughout:                                        *)
(*  - element.focus() makes a connected element document.activeElement;    *)
(*  - a dialog shown with showModal() is in the top layer: the user cannot *)
(*    click what lies behind it, and the user agent closes it on Escape;   *)
(*  - a view swap replaces every node of the body, so the nodes of the old *)
(*    document are detached and the new document starts with the focus on  *)
(*    the body; listeners on `document` survive the swap.                  *)
(***************************************************************************)
EXTENDS Integers, Sequences, FiniteSets, TLC

\* Bounds of the model.
MaxModals == 2   \* dialogs per document
MaxSlot == 1     \* focusable elements a page author puts in a modal's slot
MaxSwaps == 1    \* view swaps (astro:after-swap) in one behaviour
MaxAccItems == 3     \* accordion items per document, over all its accordions
MaxViewport == 2     \* viewport widths the window is resized between
MaxRemoved == 1      \* accordion panels a page script removes from the document

\* The ids a page may give to trigger elements / name in aria-labelledby.
TriggerIds == {"t1", "t2"}

VARIABLES
    \* ---- modal controller ----
    gen,                  \* number of view swaps so far: the generation of the current document
    page,                 \* the current document: its modals' aria-labelledby values, the trigger ids present, the slot content
    modals,               \* the NodeList captured at load (Modal.astro:45): aria-labelledby of each dialog of generation 0
    bound,                \* indices of the current document's modals that have their trigger and close-button listeners
    bindRan,              \* a binding pass ran over the current document
    bindThrew,            \* that binding pass threw "Trigger element not found"
    installed,            \* the load script reached lines 293-305: window.close override and after-swap handler installed
    open,                 \* the dialogs (of any generation) whose open attribute is set
    activeElement,        \* document.activeElement
    trapFocusController,  \* Modal.astro:53
    keydownController,    \* Modal.astro:61
    leaked,               \* listener scopes whose controller was overwritten before it was aborted
    hist                  \* what the last handled event did (observation only)

VARIABLES
    \* ---- accordion controller ----
    accGen,               \* number of view swaps so far
    accLayout,            \* the current document: the number of items of each accordion, in document order
    accordionItems,       \* the array captured at load (Accordion.astro:21): how many items generation 0 has
    isActive,             \* the items that carry the is-active class
    panelHeight,          \* the rendered height of each item's panel
    ariaExpanded,         \* aria-expanded of each item's header
    toggleIcon,           \* the glyph in each item's toggle indicator
    itemIds,              \* id / aria-controls of each item's header, id / aria-labelledby of its panel
    panelRemoved,         \* the items whose .accordion__panel a page script has removed
    accFocus,             \* document.activeElement
    viewport,             \* the current viewport width
    accHist               \* what the last handled event did (observation only)

VARIABLES
    \* ---- dark-mode controller ----
    localStorage,         \* the darkMode entry of the origin's localStorage
    prefersDarkMode,      \* matchMedia("(prefers-color-scheme: dark)").matches
    darkMode,             \* the script's variable (DarkMode.astro:21)
    bodyClass,            \* document.body carries the class darkmode
    darkModeToggle,       \* the toggle button: its aria-pressed and the glyph of its innerHTML
    dmHist                \* what the last handled event did (observation only)

dmVars == <<localStorage, prefersDarkMode, darkMode, bodyClass, darkModeToggle, dmHist>>

VARIABLES
    \* ---- skip link ----
    skHref,               \* the href of the skip anchor (SkipLinks.astro:10, 16)
    skPage,               \* the current document: the ids present, whether those elements are focusable by themselves, whether it has an h1
    skipLink,             \* the script's constant (SkipLinks.astro:27): the anchor, null, or never assigned
    skListener,           \* the keydown listener of line 44 is attached to the anchor of the current document
    skTabIndex,           \* the elements whose tabIndex the listener has set to -1
    skFocus,              \* document.activeElement
    skHist                \* what the last handled event did (observation only)

skVars == <<skHref, skPage, skipLink, skListener, skTabIndex, skFocus, skHist>>

accVars == <<accGen, accLayout, accordionItems, isActive, panelHeight, ariaExpanded,
             toggleIcon, itemIds, panelRemoved, accFocus, viewport, accHist>>

modalVars == <<gen, page, modals, bound, bindRan, bindThrew, installed, open,
               activeElement, trapFocusController, keydownController, leaked, hist>>

vars == <<modalVars, accVars, dmVars, skVars>>

\* The page has no accordion: the value of the accordion's variables in the
\* modal controller's specification.
AccordionIdle ==
    /\ accGen = 0
    /\ accLayout = <<>>
    /\ accordionItems = 0
    /\ isActive = {}
    /\ panelHeight = <<>>
    /\ ariaExpanded = <<>>
    /\ toggleIcon = <<>>
    /\ itemIds = <<>>
    /\ panelRemoved = {}
    /\ accFocus = [kind |-> "body", gen |-> 0, k |-> 0]
    /\ viewport = 1
    /\ accHist = [kind |-> "load", key |-> "", from |-> [kind |-> "body", gen |-> 0, k |-> 0],
                  prevented |-> FALSE, item |-> 0, did |-> "", seq |-> 0, aria0 |-> "",
                  afterOpen |-> FALSE]

\* The page has no dark-mode toggle: the value of the dark-mode controller's
\* variables in the other specifications.
DarkModeIdle ==
    /\ localStorage = "null"
    /\ prefersDarkMode = FALSE
    /\ darkMode = "null"
    /\ bodyClass = FALSE
    /\ darkModeToggle = [ariaPressed |-> "false", icon |-> "moon"]
    /\ dmHist = [kind |-> "load", clicks |-> 0, view0 |-> <<>>, stored0 |-> "null"]

\* The page has no skip link: the value of the skip link's variables in the
\* other specifications.
SkipLinksIdle ==
    /\ skHref = ""
    /\ skPage = [ids |-> {}, focusable |-> FALSE, h1 |-> FALSE]
    /\ skipLink = "null"
    /\ skListener = FALSE
    /\ skTabIndex = {}
    /\ skFocus = "body"
    /\ skHist = [kind |-> "load", key |-> "", from |-> "body", warned |-> FALSE]

-----------------------------------------------------------------------------
\* Documents, dialogs and elements.

\* Slot content: a sequence of focusable elements, TRUE for one that carries
\* the disabled attribute.  Every modal of a page has the same slot content.
Slots == UNION {[1..n -> BOOLEAN] : n \in 0..MaxSlot}

LabelSeqs(min) == UNION {[1..n -> TriggerIds] : n \in min..MaxModals}

Layouts == [labels : LabelSeqs(0), triggers : SUBSET TriggerIds, slot : Slots]

\* The script ships with the Modal component: the document it loads in has a modal.
InitialLayouts == {pg \in Layouts : Len(pg.labels) >= 1}

Dlg(g, i) == [gen |-> g, idx |-> i]
NoDialog == Dlg(0, 0)

CurrentDialogs == {Dlg(gen, i) : i \in 1..Len(page.labels)}

Body == [kind |-> "body", gen |-> 0, idx |-> 0, pos |-> 0, id |-> ""]
\* Focus has left the page content (browser chrome).
Outside == [kind |-> "outside", gen |-> 0, idx |-> 0, pos |-> 0, id |-> ""]
TriggerEl(id) == [kind |-> "trigger", gen |-> gen, idx |-> 0, pos |-> 0, id |-> id]
\* <h3 tabindex="-1"> (Modal.astro:15)
TitleEl(d) == [kind |-> "title", gen |-> d.gen, idx |-> d.idx, pos |-> 0, id |-> ""]
\* The p-th focusable-looking element of the dialog in document order: the
\* slot's elements, then the close button (Modal.astro:18-22).
ItemEl(d, p) == [kind |-> "item", gen |-> d.gen, idx |-> d.idx, pos |-> p, id |-> ""]

\* The slot content of a dialog.  document.activeElement is always connected,
\* so no element of a detached dialog is ever compared equal to it: of a
\* detached dialog only the close button is kept.
Content(d) == IF d.gen = gen THEN page.slot ELSE <<>>

CloseButtonPos(d) == Len(Content(d)) + 1
CloseButton(d) == ItemEl(d, CloseButtonPos(d))

InDialog(el, d) == el.kind \in {"title", "item"} /\ el.gen = d.gen /\ el.idx = d.idx

\* The dialogs of the current document that are open, and the one on top of
\* the top layer (one click opens the modals of a trigger in document order).
OpenHere == open \cap CurrentDialogs
Top == IF OpenHere = {} THEN NoDialog
       ELSE CHOOSE d \in OpenHere : \A e \in OpenHere : e.idx <= d.idx

-----------------------------------------------------------------------------
\* Listener scopes (AbortController + the listeners registered with its signal).

Undefined == [defined |-> FALSE, modal |-> NoDialog, aborted |-> FALSE]
NewController(modal) == [defined |-> TRUE, modal |-> modal, aborted |-> FALSE]
\* controller?.abort()
Abort(c) == IF c.defined THEN [c EXCEPT !.aborted = TRUE] ELSE c
Live(c) == c.defined /\ ~c.aborted

\* The dialogs that document-level trapFocus listeners are attached for.
TrapListeners ==
    {l.modal : l \in {x \in leaked : x.scope = "trap"}}
        \cup (IF Live(trapFocusController) THEN {trapFocusController.modal} ELSE {})

\* The dialog d has its Escape / click / inner-click listeners attached.
KeyListeners ==
    {l.modal : l \in {x \in leaked : x.scope = "key"}}
        \cup (IF Live(keydownController) THEN {keydownController.modal} ELSE {})

\* The state the handlers work on, threaded through one event's listeners.
Machine == [active |-> activeElement, open |-> open, trap |-> trapFocusController,
            key |-> keydownController, leaked |-> leaked,
            threw |-> FALSE, completed |-> FALSE, prevented |-> FALSE, calls |-> 0]

Commit(st) ==
    /\ activeElement' = st.active
    /\ open' = st.open
    /\ trapFocusController' = st.trap
    /\ keydownController' = st.key
    /\ leaked' = st.leaked

-----------------------------------------------------------------------------
\* The functions of the modal script.

\* element.focus(): a trigger is looked up in the current document, a
\* dialog's element is connected while its dialog belongs to it.
Focusable(el) ==
    \/ el.kind = "trigger" /\ el.gen = gen /\ el.id \in page.triggers
    \/ el.kind \in {"title", "item"} /\ el.gen = gen /\ el.idx \in 1..Len(page.labels)

Focus(el, current) == IF Focusable(el) THEN el ELSE current

\* Modal.astro:77 - what the selector matches inside the dialog, in document
\* order (the h3 has tabindex="-1" and is not matched).
QuerySelectorAll(modal) == [p \in 1..CloseButtonPos(modal) |-> ItemEl(modal, p)]

HasDisabled(modal, el) == el.pos <= Len(Content(modal)) /\ Content(modal)[el.pos]

getKeyboardFocusableElements(modal) ==
    SelectSeq(QuerySelectorAll(modal), LAMBDA el : ~HasDisabled(modal, el))

\* trapFocus whose second test leaves out event.shiftKey.
trapFocusIgnoresShift(event, modal, st) ==
    LET focusables == getKeyboardFocusableElements(modal)
        firstFocusable == focusables[1]
        lastFocusable == focusables[Len(focusables)]
        s1 == IF st.active = lastFocusable /\ event.key = "Tab" /\ ~event.shiftKey
              THEN [st EXCEPT !.prevented = TRUE,
                              !.active = Focus(firstFocusable, st.active),
                              !.calls = @ + 1]
              ELSE st
    IN  IF s1.active = firstFocusable /\ event.key = "Tab"
        THEN [s1 EXCEPT !.prevented = TRUE,
                        !.active = Focus(lastFocusable, s1.active),
                        !.calls = @ + 1]
        ELSE s1

\* Modal.astro:100-118.  event = [key, shiftKey]; st is the Machine.
trapFocus(event, modal, st) ==
    LET focusables == getKeyboardFocusableElements(modal)
        firstFocusable == focusables[1]
        lastFocusable == focusables[Len(focusables)]
        s1 == IF st.active = lastFocusable /\ event.key = "Tab" /\ ~event.shiftKey
              THEN [st EXCEPT !.prevented = TRUE,
                              !.active = Focus(firstFocusable, st.active),
                              !.calls = @ + 1]
              ELSE st
    IN  IF s1.active = firstFocusable /\ event.key = "Tab" /\ event.shiftKey
        THEN [s1 EXCEPT !.prevented = TRUE,
                        !.active = Focus(lastFocusable, s1.active),
                        !.calls = @ + 1]
        ELSE s1

\* openModal without the modalTitle.focus() of line 148.
openModalNoTitleFocus(modal, st) ==
    LET leakTrap == IF Live(st.trap) THEN {[scope |-> "trap", modal |-> st.trap.modal]} ELSE {}
        leakKey == IF Live(st.key) THEN {[scope |-> "key", modal |-> st.key.modal]} ELSE {}
    IN  [st EXCEPT !.open = @ \cup {modal},
                   !.leaked = @ \cup leakTrap \cup leakKey,
                   !.trap = NewController(modal),
                   !.key = NewController(modal)]

\* Modal.astro:133-187.  The controllers in the two script variables are
\* overwritten; a controller that was still live stays attached for good.
openModal(modal, st) ==
    LET leakTrap == IF Live(st.trap) THEN {[scope |-> "trap", modal |-> st.trap.modal]} ELSE {}
        leakKey == IF Live(st.key) THEN {[scope |-> "key", modal |-> st.key.modal]} ELSE {}
    IN  [st EXCEPT !.open = @ \cup {modal},                  \* modal.showModal()
                   !.active = Focus(TitleEl(modal), @),      \* modalTitle.focus()
                   !.leaked = @ \cup leakTrap \cup leakKey,
                   !.trap = NewController(modal),
                   !.key = NewController(modal)]

\* Modal.astro:197-228: `modals` is the list captured at load; the trigger is
\* looked up in the current document.  A missing trigger makes
\* modalTrigger.focus() throw, which ends the forEach.
RECURSIVE closeModalFrom(_, _)
closeModalFrom(i, st) ==
    IF i > Len(modals) THEN [st EXCEPT !.completed = TRUE]
    ELSE LET modalId == modals[i]
         IN  IF modalId \notin page.triggers
             THEN [st EXCEPT !.threw = TRUE]
             ELSE closeModalFrom(i + 1,
                    [st EXCEPT !.active = Focus(TriggerEl(modalId), @),
                               !.open = @ \ {Dlg(0, i)},
                               !.trap = Abort(@),
                               !.key = Abort(@)])

closeModal(st) == closeModalFrom(1, [st EXCEPT !.threw = FALSE, !.completed = FALSE])

\* The binding loop with the check of lines 266-269 left out: a modal whose
\* trigger is missing is skipped without an error.
RECURSIVE bindFromSkipping(_, _, _)
bindFromSkipping(i, pg, acc) ==
    IF i > Len(pg.labels) THEN acc
    ELSE IF pg.labels[i] \notin pg.triggers
         THEN bindFromSkipping(i + 1, pg, acc)
         ELSE bindFromSkipping(i + 1, pg, [acc EXCEPT !.bound = @ \cup {i}])

\* The binding loop with the error of lines 266-269 caught per modal: the
\* modals after the one with the missing trigger are bound all the same.
RECURSIVE bindFromContinuing(_, _, _)
bindFromContinuing(i, pg, acc) ==
    IF i > Len(pg.labels) THEN acc
    ELSE IF pg.labels[i] \notin pg.triggers
         THEN bindFromContinuing(i + 1, pg, [acc EXCEPT !.threw = TRUE])
         ELSE bindFromContinuing(i + 1, pg, [acc EXCEPT !.bound = @ \cup {i}])

\* Modal.astro:238-282 and 325-382: the binding loop over the modals of a
\* document; it throws at the first modal whose trigger is missing.
RECURSIVE bindFrom(_, _, _)
bindFrom(i, pg, acc) ==
    IF i > Len(pg.labels) THEN acc
    ELSE IF pg.labels[i] \notin pg.triggers
         THEN [acc EXCEPT !.threw = TRUE]
         ELSE bindFrom(i + 1, pg, [acc EXCEPT !.bound = @ \cup {i}])

bindModals(pg) == bindFrom(1, pg, [bound |-> {}, threw |-> FALSE])

\* Every document-level trapFocus listener handles the event.  Only a
\* listener whose dialog holds the focus acts, so the order does not matter.
RECURSIVE DispatchTrap(_, _, _)
DispatchTrap(listeners, event, st) ==
    IF listeners = {} THEN st
    ELSE LET m == CHOOSE x \in listeners : TRUE
         IN  DispatchTrap(listeners \ {m}, event, trapFocus(event, m, st))

\* The default action of Tab / Shift+Tab: sequential focus navigation inside
\* the top dialog d.  Past the last (before the first) tabbable element the
\* user agent either leaves the page content or wraps around.
DefaultTab(el, d, shiftKey) ==
    LET f == getKeyboardFocusableElements(d)
        els == {f[k] : k \in 1..Len(f)}
        p == IF InDialog(el, d) THEN el.pos
             ELSE IF shiftKey THEN CloseButtonPos(d) + 1 ELSE 0 - 1
        after == {e \in els : e.pos > p}
        before == {e \in els : e.pos < p}
    IN  IF ~shiftKey
        THEN IF after # {}
             THEN {CHOOSE e \in after : \A x \in after : e.pos <= x.pos}
             ELSE {Outside, f[1]}
        ELSE IF before # {}
             THEN {CHOOSE e \in before : \A x \in before : e.pos >= x.pos}
             ELSE {Outside, f[Len(f)]}

-----------------------------------------------------------------------------
\* Observation of the last event.

NoHist == [kind |-> "load", shift |-> FALSE, from |-> Body, dlg |-> NoDialog,
           trig |-> "", prevented |-> FALSE, calls |-> 0,
           closeCompleted |-> FALSE, tabsOnly |-> FALSE, openedBy |-> ""]

\* kind: the event; dlg: the top dialog when it arrived; closeCompleted:
\* closeModal ran and returned normally; tabsOnly: only Tab presses since the
\* last click that opened a modal; openedBy: the trigger of that click.
Observe(kind, st, closeRan) ==
    [hist EXCEPT !.kind = kind, !.shift = FALSE, !.from = Body,
                 !.dlg = Top, !.trig = "",
                 !.prevented = st.prevented, !.calls = st.calls,
                 !.closeCompleted = closeRan /\ st.completed,
                 !.tabsOnly = FALSE]

-----------------------------------------------------------------------------
\* The modal controller's state machine.

InitModal ==
    /\ gen = 0
    /\ page \in InitialLayouts
    /\ modals = page.labels
    /\ bound = bindModals(page).bound
    /\ bindRan = TRUE
    /\ bindThrew = bindModals(page).threw
    /\ installed = ~bindModals(page).threw
    /\ open = {}
    /\ activeElement = Body
    /\ trapFocusController = Undefined
    /\ keydownController = Undefined
    /\ leaked = {}
    /\ hist = NoHist
    /\ AccordionIdle
    /\ DarkModeIdle
    /\ SkipLinksIdle

\* The trigger's click listeners, in the order they were added (Modal.astro:275, 373).
RECURSIVE RunTriggerListeners(_, _, _)
RunTriggerListeners(i, id, st) ==
    IF i > Len(page.labels) THEN st
    ELSE IF i \in bound /\ page.labels[i] = id
         THEN RunTriggerListeners(i + 1, id, openModal(Dlg(gen, i), st))
         ELSE RunTriggerListeners(i + 1, id, st)

\* The user clicks a trigger.  Nothing behind an open modal dialog can be clicked.
ClickTrigger(id) ==
    /\ id \in page.triggers
    /\ OpenHere = {}
    /\ LET st == RunTriggerListeners(1, id, [Machine EXCEPT !.active = TriggerEl(id)])
       IN  /\ Commit(st)
           /\ hist' = [Observe("clickTrigger", st, FALSE) EXCEPT
                         !.trig = id,
                         !.tabsOnly = (st.open # open),
                         !.openedBy = IF st.open # open THEN id ELSE @]
    /\ UNCHANGED <<gen, page, modals, bound, bindRan, bindThrew, installed, accVars, dmVars, skVars>>

\* The user clicks the close button of the top dialog (Modal.astro:281, 381).
\* closeModal aborts the script's current keydown scope; the click then
\* reaches .modal__inner, and the dialog's own click listener belongs to the
\* same scopes as the inner stopPropagation listener, so it never runs.
ClickClose ==
    /\ Top # NoDialog
    /\ Top.idx \in bound
    /\ LET st == closeModal([Machine EXCEPT !.active = CloseButton(Top)])
       IN  /\ Commit(st)
           /\ hist' = Observe("clickClose", st, TRUE)
    /\ UNCHANGED <<gen, page, modals, bound, bindRan, bindThrew, installed, accVars, dmVars, skVars>>

\* The user clicks the backdrop: the click's target is the dialog itself
\* (Modal.astro:179).  Running closeModal again for a second attached
\* listener changes nothing.
ClickBackdrop ==
    /\ Top # NoDialog
    /\ LET ran == Top \in KeyListeners
           st == IF ran THEN closeModal(Machine) ELSE Machine
       IN  /\ Commit(st)
           /\ hist' = Observe("clickBackdrop", st, ran)
    /\ UNCHANGED <<gen, page, modals, bound, bindRan, bindThrew, installed, accVars, dmVars, skVars>>

\* The user clicks inside .modal__inner, on the text (pos = 0) or on an
\* enabled slot element (Modal.astro:186).  Without a stopPropagation
\* listener the click bubbles to the dialog's click listeners.
ClickInner(pos) ==
    /\ Top # NoDialog
    /\ pos \in 0..Len(Content(Top))
    /\ pos > 0 => ~Content(Top)[pos]
    /\ LET stopped == Top \in KeyListeners
           ran == ~stopped /\ Top \in KeyListeners
           clicked == IF pos > 0 THEN [Machine EXCEPT !.active = ItemEl(Top, pos)] ELSE Machine
           st == IF ran THEN closeModal(clicked) ELSE clicked
       IN  /\ Commit(st)
           /\ hist' = Observe("clickInner", st, ran)
    /\ UNCHANGED <<gen, page, modals, bound, bindRan, bindThrew, installed, accVars, dmVars, skVars>>

\* Escape while a modal dialog is open and the focus is in the page: the
\* keydown bubbles from the focused element (Modal.astro:171 when it is
\* inside the dialog), then to the document (Modal.astro:165); the user agent
\* then closes the top dialog if it is still open.
KeyEscape ==
    /\ Top # NoDialog
    /\ activeElement # Outside
    /\ LET event == [key |-> "Escape", shiftKey |-> FALSE]
           ran == InDialog(activeElement, Top) /\ Top \in KeyListeners
           s1 == IF ran THEN closeModal(Machine) ELSE Machine
           listeners == {l.modal : l \in {x \in s1.leaked : x.scope = "trap"}}
                          \cup (IF Live(s1.trap) THEN {s1.trap.modal} ELSE {})
           s2 == DispatchTrap(listeners, event, s1)
           st == [s2 EXCEPT !.open = @ \ {Top}]
       IN  /\ Commit(st)
           /\ hist' = Observe("escape", st, ran)
    /\ UNCHANGED <<gen, page, modals, bound, bindRan, bindThrew, installed, accVars, dmVars, skVars>>

\* Tab or Shift+Tab while a modal dialog is open.  With the focus outside
\* the page content no keydown reaches the document and the focus re-enters
\* the dialog.
KeyTab(shiftKey) ==
    /\ Top # NoDialog
    /\ LET event == [key |-> "Tab", shiftKey |-> shiftKey]
           s1 == IF activeElement = Outside THEN Machine
                 ELSE DispatchTrap(TrapListeners, event, Machine)
       IN  /\ \E target \in (IF s1.prevented THEN {s1.active}
                             ELSE DefaultTab(s1.active, Top, shiftKey)) :
                 Commit([s1 EXCEPT !.active = target])
           /\ hist' = [Observe("tab", s1, FALSE) EXCEPT
                         !.shift = shiftKey, !.from = activeElement,
                         !.tabsOnly = hist.tabsOnly]
    /\ UNCHANGED <<gen, page, modals, bound, bindRan, bindThrew, installed, accVars, dmVars, skVars>>

\* Some script calls window.close() (Modal.astro:293).
WindowClose ==
    /\ installed
    /\ LET st == closeModal(Machine)
       IN  /\ Commit(st)
           /\ hist' = Observe("windowClose", st, TRUE)
    /\ UNCHANGED <<gen, page, modals, bound, bindRan, bindThrew, installed, accVars, dmVars, skVars>>

\* A view swap to another page, then astro:after-swap (Modal.astro:305-383):
\* the handler, if it was installed, binds the modals of the new document.
\* The script variables, `modals` included, keep their values.
Swap(newPage) ==
    /\ gen < MaxSwaps
    /\ gen' = gen + 1
    /\ page' = newPage
    /\ activeElement' = Body
    /\ bindRan' = installed
    /\ bound' = IF installed THEN bindModals(newPage).bound ELSE {}
    /\ bindThrew' = (installed /\ bindModals(newPage).threw)
    /\ hist' = [NoHist EXCEPT !.kind = "swap"]
    /\ UNCHANGED <<modals, installed, open, trapFocusController, keydownController, leaked, accVars, dmVars, skVars>>

NextModal ==
    \/ \E id \in TriggerIds : ClickTrigger(id)
    \/ ClickClose
    \/ ClickBackdrop
    \/ \E pos \in 0..MaxSlot : ClickInner(pos)
    \/ KeyEscape
    \/ \E shiftKey \in BOOLEAN : KeyTab(shiftKey)
    \/ WindowClose
    \/ \E newPage \in Layouts : Swap(newPage)

SpecModal == InitModal /\ [][NextModal]_vars

-----------------------------------------------------------------------------
\* Properties of the modal controller.

\* Every binding pass over the current document completed without an error.
BindingsOk == installed /\ bindRan /\ ~bindThrew

\* C1: after a view swap the controller works on the dialogs of the new
\* document: a click on a trigger opens its dialogs, a close action (close
\* button, Escape, backdrop) closes the dialog it is made on, and no dialog
\* of the new document is open once closeModal has returned.  Stated for
\* documents whose binding succeeded.
C1_NewDocumentDialogsClose ==
    (gen > 0 /\ BindingsOk) =>
        /\ hist.kind = "clickTrigger" =>
              \A i \in 1..Len(page.labels) :
                  page.labels[i] = hist.trig => Dlg(gen, i) \in open
        /\ hist.kind \in {"clickClose", "escape", "clickBackdrop"} =>
              hist.dlg \notin open
        /\ hist.closeCompleted => OpenHere = {}

\* C2: once closeModal has completed, no Tab-trap listener and no
\* Escape/backdrop listener registered by an earlier openModal is attached.
C2_NoListenerAfterClose ==
    hist.closeCompleted => (TrapListeners = {} /\ KeyListeners = {})

\* C3: when a modal was opened through trigger T and closeModal then runs,
\* the focus ends on T.
C3_FocusReturnsToTrigger ==
    (hist.closeCompleted /\ hist.dlg # NoDialog) =>
        activeElement = TriggerEl(hist.openedBy)

\* C4: after a modal is opened, any sequence of Tab and Shift+Tab presses
\* leaves the focus on a descendant of the open dialog.
C4_FocusStaysInDialog ==
    (hist.tabsOnly /\ Top # NoDialog) => InDialog(activeElement, Top)

\* C5: while a modal is open, Tab on the last focusable element is cancelled
\* and moves the focus to the first, Shift+Tab on the first is cancelled and
\* moves it to the last, and from every other position the trap neither
\* cancels the event nor moves the focus.
C5_TrapWrapsAtTheEnds ==
    (hist.kind = "tab" /\ hist.dlg # NoDialog /\ hist.from # Outside) =>
        LET focusables == getKeyboardFocusableElements(hist.dlg)
            firstFocusable == focusables[1]
            lastFocusable == focusables[Len(focusables)]
        IN  IF hist.from = lastFocusable /\ ~hist.shift
            THEN hist.prevented /\ activeElement = firstFocusable
            ELSE IF hist.from = firstFocusable /\ hist.shift
                 THEN hist.prevented /\ activeElement = lastFocusable
                 ELSE ~hist.prevented /\ hist.calls = 0

\* C6: whenever no dialog of the current document is open, no listener
\* registered by openModal is attached.
C6_ScopesOnlyWhileOpen ==
    OpenHere = {} => (TrapListeners = {} /\ KeyListeners = {})

\* C7: a binding pass over a document in which a modal's trigger is missing
\* throws, and that modal gets neither a trigger listener nor a close-button
\* listener.
C7_MissingTriggerThrows ==
    bindRan =>
        \A i \in 1..Len(page.labels) :
            page.labels[i] \notin page.triggers => (bindThrew /\ i \notin bound)

\* A binding pass after a view swap bound a modal and then threw at a later one.
C7_Witness ==
    gen > 0 /\ bindRan /\ bindThrew /\ bound # {}

\* C8 as stated: a click on a modal's trigger opens that modal and only that
\* modal, moves the focus to its title and establishes both listener scopes.
C8_ClickOpensThatModalOnly ==
    hist.kind = "clickTrigger" =>
        \A i \in 1..Len(page.labels) :
            page.labels[i] = hist.trig =>
                /\ OpenHere = {Dlg(gen, i)}
                /\ activeElement = TitleEl(Dlg(gen, i))
                /\ trapFocusController = NewController(Dlg(gen, i))
                /\ keydownController = NewController(Dlg(gen, i))

\* The modals a click on trigger id opens: those bound to it.
BoundTo(id) == {i \in bound : page.labels[i] = id}

\* C8 as amended: a click on a trigger opens exactly the modals bound to that
\* trigger; the focus moves to the title of the last of them, and its Tab
\* trap and its Escape/backdrop listeners are attached.
C8_ClickOpensBoundModals ==
    hist.kind = "clickTrigger" =>
        /\ OpenHere = {Dlg(gen, i) : i \in BoundTo(hist.trig)}
        /\ BoundTo(hist.trig) # {} =>
              LET last == Dlg(gen, CHOOSE i \in BoundTo(hist.trig) :
                                      \A j \in BoundTo(hist.trig) : j <= i)
              IN  /\ activeElement = TitleEl(last)
                  /\ trapFocusController = NewController(last)
                  /\ keydownController = NewController(last)
                  /\ last \in TrapListeners
                  /\ last \in KeyListeners

\* A click has opened one modal of a document reached by a view swap.
C8_Witness ==
    /\ hist.kind = "clickTrigger"
    /\ gen > 0
    /\ Cardinality(OpenHere) = 1
    /\ activeElement = TitleEl(Top)

\* C9: Escape on the open dialog or a click on its backdrop closes it; a
\* click on its inner content leaves it open with its listeners attached.
C9_EscapeBackdropCloseInnerKeeps ==
    /\ (hist.kind \in {"escape", "clickBackdrop"} /\ hist.dlg # NoDialog) =>
          hist.dlg \notin open
    /\ (hist.kind = "clickInner" /\ BindingsOk) =>
          /\ hist.dlg \in open
          /\ hist.dlg \in TrapListeners
          /\ hist.dlg \in KeyListeners

\* C27: one Tab keydown makes the focus trap call focus() at most once
\* (the two wrap branches never both fire), and in a dialog with a single
\* focusable element the focus stays on that element.
C27_TrapMovesFocusAtMostOnce ==
    hist.kind = "tab" =>
        /\ hist.calls <= 1
        /\ (hist.calls = 1 /\ hist.from.kind = "item"
               /\ Len(getKeyboardFocusableElements(Dlg(hist.from.gen, hist.from.idx))) = 1) =>
              activeElement = hist.from

\* Shift+Tab was pressed on the only focusable element of the open dialog
\* and the trap handled it.
C27_Witness ==
    /\ hist.kind = "tab"
    /\ hist.shift
    /\ hist.calls = 1
    /\ hist.from.kind = "item"
    /\ Len(getKeyboardFocusableElements(Dlg(hist.from.gen, hist.from.idx))) = 1
    /\ activeElement = hist.from

\* The modals of the current document whose trigger is missing.
MissingTrigger == {i \in 1..Len(page.labels) : page.labels[i] \notin page.triggers}

\* C28: the binding at load binds the modals in document order up to the
\* first one whose trigger is missing; that modal and the later ones get no
\* listener, window.close is not overridden and no after-swap handler is
\* installed (no binding runs after a view swap).  Without a missing trigger
\* every modal is bound and both are installed.
C28_BindingStopsAtFirstMissingTrigger ==
    /\ gen = 0 =>
          IF MissingTrigger = {}
          THEN bound = 1..Len(page.labels) /\ installed /\ ~bindThrew
          ELSE /\ bound = {i \in 1..Len(page.labels) : \A m \in MissingTrigger : i < m}
               /\ bindThrew
               /\ ~installed
    /\ (gen > 0 /\ ~installed) => (~bindRan /\ bound = {})
    /\ hist.kind = "windowClose" => installed

\* The first modal of the page was bound and has been opened; the second
\* one's trigger is missing.
C28_Witness ==
    /\ gen = 0
    /\ bindThrew
    /\ bound = {1}
    /\ hist.kind = "clickTrigger"
    /\ OpenHere = {Dlg(0, 1)}

-----------------------------------------------------------------------------
\* The accordion controller (src/src/Accordion.astro).

RECURSIVE SumTo(_, _)
SumTo(layout, n) == IF n = 0 THEN 0 ELSE layout[n] + SumTo(layout, n - 1)

\* A document has one or more accordions (.accordion__wrapper) of one or more
\* items each.
AccLayouts ==
    UNION {{layout \in [1..n -> 1..MaxAccItems] : SumTo(layout, n) <= MaxAccItems} :
              n \in 1..MaxAccItems}

\* The number of .accordion__item elements of a document.
ItemCount(layout) == SumTo(layout, Len(layout))

Item(g, k) == [gen |-> g, k |-> k]
CurrentItems == {Item(accGen, k) : k \in 1..ItemCount(accLayout)}
\* accordionItems[i] in the script, with i counted from 0.
CapturedItem(i) == Item(0, i + 1)
CapturedItems == {CapturedItem(i) : i \in 0..(accordionItems - 1)}
Connected(item) == item \in CurrentItems

AccBody == [kind |-> "body", gen |-> 0, k |-> 0]
Header(item) == [kind |-> "header", gen |-> item.gen, k |-> item.k]
\* A focusable element inside the item's panel.
InPanel(item) == [kind |-> "panel", gen |-> item.gen, k |-> item.k]
ItemOf(el) == Item(el.gen, el.k)

\* The accordion (.accordion__wrapper) the k-th item of the document is in.
WrapperOf(k) == CHOOSE a \in 1..Len(accLayout) :
                    SumTo(accLayout, a - 1) < k /\ k <= SumTo(accLayout, a)

\* Accordion.astro:337-346: the position of the item among the items of its
\* own wrapper, counted from 0.
IndexInWrapper(item) == item.k - SumTo(accLayout, WrapperOf(item.k) - 1) - 1

\* The height the layout gives the content of the k-th item at a viewport width.
LayoutHeight(k, v) == 10 * v + k

\* Items start closed.
InitialExpanded == "false"
InitialIcon == "plus"
\* The markup gives headers and panels no id and no cross-link.
NoId == <<"", 0>>
InitialIds == [headerId |-> NoId, panelId |-> NoId, ariaControls |-> NoId,
               ariaLabelledby |-> NoId]

\* Accordion.astro:216-254 with `accordion-item${index + 1}` as the pair
\* <<"accordion-item", index + 1>>; the mutant numbers the items from 0.
idLoopFromZero(count) ==
    [it \in {Item(0, i + 1) : i \in 0..(count - 1)} |->
        LET index == it.k - 1
        IN  [headerId |-> <<"accordion-item", index>>,
             panelId |-> <<"item", index>>,
             ariaControls |-> <<"item", index>>,
             ariaLabelledby |-> <<"accordion-item", index>>]]

idLoop(count) ==
    [it \in {Item(0, i + 1) : i \in 0..(count - 1)} |->
        LET index == it.k - 1
        IN  [headerId |-> <<"accordion-item", index + 1>>,
             panelId |-> <<"item", index + 1>>,
             ariaControls |-> <<"item", index + 1>>,
             ariaLabelledby |-> <<"accordion-item", index + 1>>]]

\* accordionItem.querySelector('.accordion__panel') finds the panel.
HasPanel(accordionItem) == accordionItem \notin panelRemoved

\* Accordion.astro:30-33; the bounding box of a detached element is empty.
getPanelHeight(accordionItem, st) ==
    IF HasPanel(accordionItem)
    THEN IF Connected(accordionItem) THEN LayoutHeight(accordionItem.k, st.viewport) ELSE 0
    ELSE 0

\* What a handler reads and writes; threw: a TypeError left the handler,
\* did / item: the last of openAccordionItem / closeAccordionItem it called.
AccMachine == [active |-> isActive, height |-> panelHeight, expanded |-> ariaExpanded,
               icon |-> toggleIcon, focus |-> accFocus, viewport |-> viewport,
               prevented |-> FALSE, threw |-> FALSE,
               did |-> "", item |-> 0]

AccCommit(st) ==
    /\ isActive' = st.active
    /\ panelHeight' = st.height
    /\ ariaExpanded' = st.expanded
    /\ toggleIcon' = st.icon
    /\ accFocus' = st.focus

\* Accordion.astro:40-91; without a panel line 74 reads `style` of null.
openAccordionItemExclusive(accordionItem, st) ==
    IF ~HasPanel(accordionItem)
    THEN [st EXCEPT !.threw = TRUE, !.did = "open", !.item = accordionItem.k]
    ELSE [st EXCEPT !.height = [it \in DOMAIN @ |->
                                   IF it = accordionItem
                                   THEN getPanelHeight(accordionItem, st) ELSE 0],
                    !.active = {accordionItem},
                    !.expanded = [it \in DOMAIN @ |->
                                     IF it = accordionItem THEN "true" ELSE "false"],
                    !.icon[accordionItem] = "minus",
                    !.did = "open", !.item = accordionItem.k]

openAccordionItem(accordionItem, st) ==
    IF ~HasPanel(accordionItem)
    THEN [st EXCEPT !.threw = TRUE, !.did = "open", !.item = accordionItem.k]
    ELSE [st EXCEPT !.height[accordionItem] = getPanelHeight(accordionItem, st),
                    !.active = @ \cup {accordionItem},
                    !.expanded[accordionItem] = "true",
                    !.icon[accordionItem] = "minus",
                    !.did = "open", !.item = accordionItem.k]

\* Accordion.astro:98-135; without a panel line 113 reads `style` of null,
\* after line 108 has removed the class.  The test of line 134 comes last.
closeAccordionItemKeepsAria(accordionItem, st) ==
    IF ~HasPanel(accordionItem)
    THEN [st EXCEPT !.active = @ \ {accordionItem},
                    !.threw = TRUE, !.did = "close", !.item = accordionItem.k]
    ELSE [st EXCEPT !.active = @ \ {accordionItem},
                    !.height[accordionItem] = 0,
                    !.focus = IF Connected(accordionItem) THEN Header(accordionItem) ELSE @,
                    !.icon[accordionItem] = "plus",
                    !.did = "close", !.item = accordionItem.k]

closeAccordionItemKeepsHeight(accordionItem, st) ==
    IF ~HasPanel(accordionItem)
    THEN [st EXCEPT !.active = @ \ {accordionItem},
                    !.threw = TRUE, !.did = "close", !.item = accordionItem.k]
    ELSE [st EXCEPT !.active = @ \ {accordionItem},
                    !.focus = IF Connected(accordionItem) THEN Header(accordionItem) ELSE @,
                    !.expanded[accordionItem] = "false",
                    !.icon[accordionItem] = "plus",
                    !.did = "close", !.item = accordionItem.k]

closeAccordionItem(accordionItem, st) ==
    IF ~HasPanel(accordionItem)
    THEN [st EXCEPT !.active = @ \ {accordionItem},
                    !.threw = TRUE, !.did = "close", !.item = accordionItem.k]
    ELSE [st EXCEPT !.active = @ \ {accordionItem},
                    !.height[accordionItem] = 0,
                    !.focus = IF Connected(accordionItem) THEN Header(accordionItem) ELSE @,
                    !.expanded[accordionItem] = "false",
                    !.icon[accordionItem] = "plus",
                    !.did = "close", !.item = accordionItem.k]

\* Accordion.astro:144-146
isAccordionOpen(accordionItem, st) == accordionItem \in st.active

\* Accordion.astro:157-172; el is event.target.
toggleAccordionItem(el, st) ==
    IF el.kind = "body" THEN st
    ELSE IF isAccordionOpen(ItemOf(el), st)
         THEN closeAccordionItem(ItemOf(el), st)
         ELSE openAccordionItem(ItemOf(el), st)

\* Accordion.astro:182-203: over the items captured at load.  After a view
\* swap these are detached: their class list and style are no longer part of
\* any document, and the model drops them at the swap.  Without a panel
\* line 201 reads `style` of null and the forEach stops there.
RECURSIVE recalculateAllFrom(_, _)
recalculateAllFrom(i, st) ==
    IF i >= accordionItems THEN st
    ELSE IF CapturedItem(i) \in DOMAIN st.height
         THEN IF ~HasPanel(CapturedItem(i)) THEN [st EXCEPT !.threw = TRUE]
              ELSE recalculateAllFrom(i + 1,
                     [st EXCEPT !.height[CapturedItem(i)] = getPanelHeight(CapturedItem(i), st)])
         ELSE recalculateAllFrom(i + 1, st)

RECURSIVE recalculateFrom(_, _)
recalculateFrom(i, st) ==
    IF i >= accordionItems THEN st
    ELSE IF CapturedItem(i) \in st.active
         THEN IF ~HasPanel(CapturedItem(i)) THEN [st EXCEPT !.threw = TRUE]
              ELSE recalculateFrom(i + 1,
                     [st EXCEPT !.height[CapturedItem(i)] = getPanelHeight(CapturedItem(i), st)])
         ELSE recalculateFrom(i + 1, st)

recalculateHeight(st) == recalculateFrom(0, st)

\* Accordion.astro:267-295
escapeListenerNoOpenTest(key, el, st) ==
    IF key # "Escape" \/ el.kind = "body" THEN st
    ELSE closeAccordionItem(ItemOf(el), st)

escapeListener(key, el, st) ==
    IF key # "Escape" \/ el.kind = "body" THEN st
    ELSE IF isAccordionOpen(ItemOf(el), st)
         THEN closeAccordionItem(ItemOf(el), st)
         ELSE st

\* Accordion.astro:348-368: null / undefined is NoItem.
NoItem == Item(0, 0)
targetItem(key, index) ==
    IF key = "ArrowDown"
    THEN IF index < accordionItems - 1 THEN CapturedItem(index + 1) ELSE NoItem
    ELSE IF key = "ArrowUp"
         THEN IF index > 0 THEN CapturedItem(index - 1) ELSE NoItem
         ELSE NoItem

\* Accordion.astro:307-387
arrowListener(key, el, st) ==
    IF el.kind # "header" THEN st
    ELSE LET index == IndexInWrapper(ItemOf(el))
             target == targetItem(key, index)
         IN  IF target # NoItem
             THEN [st EXCEPT !.prevented = TRUE,
                             !.focus = IF Connected(target) THEN Header(target) ELSE @]
             ELSE st

AccKeys == {"Escape", "ArrowDown", "ArrowUp", "Home"}

ItemStates(items, value) == [it \in items |-> value]

\* What the last event did, for the properties below.
AccEvent(kind) == [kind |-> kind, key |-> "", from |-> AccBody, prevented |-> FALSE,
                   item |-> 0, did |-> "", seq |-> 0, aria0 |-> "", afterOpen |-> FALSE]

\* The call of closeAccordionItem in st comes right after the event that
\* called openAccordionItem on the same item.
AfterOpen(st) ==
    /\ st.did = "close"
    /\ accHist.did = "open"
    /\ accHist.item = st.item

InitAccordionWidget ==
    /\ accGen = 0
    /\ accLayout \in AccLayouts
    /\ accordionItems = ItemCount(accLayout)
    /\ isActive = {}
    /\ panelHeight = ItemStates({Item(0, k) : k \in 1..ItemCount(accLayout)}, 0)
    /\ ariaExpanded = ItemStates({Item(0, k) : k \in 1..ItemCount(accLayout)}, InitialExpanded)
    /\ toggleIcon = ItemStates({Item(0, k) : k \in 1..ItemCount(accLayout)}, InitialIcon)
    /\ itemIds = idLoop(ItemCount(accLayout))
    /\ panelRemoved = {}
    /\ accFocus = AccBody
    /\ viewport \in 1..MaxViewport
    /\ accHist = AccEvent("load")

ModalIdle ==
    /\ gen = 0
    /\ page = [labels |-> <<>>, triggers |-> {}, slot |-> <<>>]
    /\ modals = <<>>
    /\ bound = {}
    /\ bindRan = FALSE
    /\ bindThrew = FALSE
    /\ installed = FALSE
    /\ open = {}
    /\ activeElement = Body
    /\ trapFocusController = Undefined
    /\ keydownController = Undefined
    /\ leaked = {}
    /\ hist = NoHist

InitAccordion == InitAccordionWidget /\ ModalIdle /\ DarkModeIdle /\ SkipLinksIdle

\* The user moves the focus to a header or into a panel (Tab, pointer).
AccFocusMove(el) ==
    /\ el.kind # "body"
    /\ ItemOf(el) \in CurrentItems
    /\ el.kind = "panel" => HasPanel(ItemOf(el))
    /\ el # accFocus
    /\ accFocus' = el
    /\ accHist' = AccEvent("focus")
    /\ UNCHANGED <<accGen, accLayout, accordionItems, isActive, panelHeight,
                   ariaExpanded, toggleIcon, itemIds, panelRemoved,
                   viewport, modalVars, dmVars, skVars>>

\* The user activates a header: the click focuses it and runs
\* window.toggleAccordionItem (Accordion.astro:389).
AccToggle(item) ==
    /\ item \in CurrentItems
    /\ LET st == toggleAccordionItem(Header(item), [AccMachine EXCEPT !.focus = Header(item)])
           seq == IF accHist.kind = "toggle" /\ accHist.item = item.k /\ accHist.seq = 1
                  THEN 2
                  ELSE IF item \notin isActive THEN 1 ELSE 0
       IN  /\ AccCommit(st)
           /\ accHist' = [AccEvent("toggle") EXCEPT
                            !.item = st.item, !.did = st.did, !.seq = seq,
                            !.aria0 = IF seq = 2 THEN accHist.aria0
                                      ELSE IF seq = 1 THEN ariaExpanded[item] ELSE "",
                            !.afterOpen = AfterOpen(st)]
    /\ UNCHANGED <<accGen, accLayout, accordionItems, itemIds, panelRemoved,
                   viewport, modalVars, dmVars, skVars>>

\* A keydown reaches the two document listeners, in the order they were added;
\* an exception in the first does not keep the second from running.
AccKeyDown(key) ==
    /\ LET s1 == escapeListener(key, accFocus, AccMachine)
           st == arrowListener(key, accFocus, s1)
       IN  /\ AccCommit(st)
           /\ accHist' = [AccEvent("keydown") EXCEPT
                            !.key = key, !.from = accFocus, !.prevented = st.prevented,
                            !.item = st.item, !.did = st.did,
                            !.afterOpen = AfterOpen(st)]
    /\ UNCHANGED <<accGen, accLayout, accordionItems, itemIds, panelRemoved,
                   viewport, modalVars, dmVars, skVars>>

\* The window is resized to another width; window.onresize runs
\* recalculateHeight on the new layout (Accordion.astro:390).
AccResize(v) ==
    /\ v # viewport
    /\ viewport' = v
    /\ AccCommit(recalculateHeight([AccMachine EXCEPT !.viewport = v]))
    /\ accHist' = AccEvent("resize")
    /\ UNCHANGED <<accGen, accLayout, accordionItems, itemIds, panelRemoved, modalVars, dmVars, skVars>>

\* A script of the page removes the panel of an item from the document; the
\* focus leaves with it.
AccRemovePanel(item) ==
    /\ item \in CurrentItems \ panelRemoved
    /\ Cardinality(panelRemoved) < MaxRemoved
    /\ panelRemoved' = panelRemoved \cup {item}
    /\ accFocus' = IF accFocus = InPanel(item) THEN AccBody ELSE accFocus
    /\ accHist' = AccEvent("remove")
    /\ UNCHANGED <<accGen, accLayout, accordionItems, isActive, panelHeight,
                   ariaExpanded, toggleIcon, itemIds, viewport, modalVars, dmVars, skVars>>

\* A view swap replaces the accordion items; the script has no after-swap
\* handler, so `accordionItems` keeps the items of the first document and
\* the id loop does not run on the new ones.
AccSwap(newLayout) ==
    /\ accGen < MaxSwaps
    /\ accGen' = accGen + 1
    /\ accLayout' = newLayout
    /\ LET new == {Item(accGen + 1, k) : k \in 1..ItemCount(newLayout)}
       IN  /\ isActive' = {}
           /\ panelHeight' = ItemStates(new, 0)
           /\ ariaExpanded' = ItemStates(new, InitialExpanded)
           /\ toggleIcon' = ItemStates(new, InitialIcon)
           /\ itemIds' = ItemStates(new, InitialIds)
    /\ panelRemoved' = {}
    /\ accFocus' = AccBody
    /\ accHist' = AccEvent("swap")
    /\ UNCHANGED <<accordionItems, viewport, modalVars, dmVars, skVars>>

NextAccordion ==
    \/ \E el \in {Header(it) : it \in CurrentItems} \cup {InPanel(it) : it \in CurrentItems} :
          AccFocusMove(el)
    \/ \E it \in CurrentItems : AccToggle(it)
    \/ \E key \in AccKeys : AccKeyDown(key)
    \/ \E v \in 1..MaxViewport : AccResize(v)
    \/ \E it \in CurrentItems : AccRemovePanel(it)
    \/ \E newLayout \in AccLayouts : AccSwap(newLayout)

SpecAccordion == InitAccordion /\ [][NextAccordion]_vars

-----------------------------------------------------------------------------
\* Properties of the accordion controller.

\* C10: ArrowDown / ArrowUp on a header moves the focus to the next /
\* previous accordion header of the document and does nothing at the last /
\* first header, on pages with one accordion and on pages with several.
C10_ArrowMovesToAdjacentHeader ==
    (accGen = 0 /\ accHist.kind = "keydown" /\ accHist.from.kind = "header"
        /\ accHist.key \in {"ArrowDown", "ArrowUp"}) =>
        LET k == accHist.from.k
        IN  IF accHist.key = "ArrowDown"
            THEN accFocus = IF k < ItemCount(accLayout)
                            THEN Header(Item(accGen, k + 1)) ELSE accHist.from
            ELSE accFocus = IF k > 1
                            THEN Header(Item(accGen, k - 1)) ELSE accHist.from

\* The item the last call of openAccordionItem / closeAccordionItem was about.
LastItem == Item(accGen, accHist.item)

\* What the user perceives of the items: class, height, aria-expanded, icon.
ItemView == <<isActive, panelHeight, ariaExpanded, toggleIcon>>

\* C11: closeAccordionItem on an item whose panel has been removed from the
\* document has no side effect: the active class, the panel heights,
\* aria-expanded, the toggle icons and (for a keydown) the focused element
\* are what they were before the call.
C11_CloseWithoutPanelIsNoOp ==
    [][(accHist'.did = "close" /\ Item(accGen, accHist'.item) \in panelRemoved) =>
          /\ UNCHANGED ItemView
          /\ accHist'.kind = "keydown" => accFocus' = accFocus]_vars

\* The ids and cross-links the N-th item of a document is to have.
PairedIds(n) == [headerId |-> <<"accordion-item", n>>, panelId |-> <<"item", n>>,
                 ariaControls |-> <<"item", n>>, ariaLabelledby |-> <<"accordion-item", n>>]

\* C12: after a view swap the items of the new document have their paired
\* ids and cross-links, an arrow key on a header of a single-accordion page
\* moves the focus to the adjacent header of the new document, and a resize
\* leaves every open item of the new document at its natural height.
C12_RebindsAfterSwap ==
    accGen > 0 =>
        /\ \A it \in CurrentItems : itemIds[it] = PairedIds(it.k)
        /\ (accHist.kind = "keydown" /\ accHist.from.kind = "header" /\ Len(accLayout) = 1
               /\ accHist.key \in {"ArrowDown", "ArrowUp"}) =>
              LET k == accHist.from.k
              IN  IF accHist.key = "ArrowDown"
                  THEN accFocus = IF k < ItemCount(accLayout)
                                  THEN Header(Item(accGen, k + 1)) ELSE accHist.from
                  ELSE accFocus = IF k > 1
                                  THEN Header(Item(accGen, k - 1)) ELSE accHist.from
        /\ accHist.kind = "resize" =>
              \A it \in isActive : HasPanel(it) => panelHeight[it] = LayoutHeight(it.k, viewport)

\* C13: two consecutive activations of an item's header, the first one on
\* the closed item, leave the item closed with the aria-expanded it had
\* before the first (its ids and cross-links are never written after load).
C13_ToggleTwiceFromClosed ==
    accHist.seq = 2 =>
        /\ LastItem \notin isActive
        /\ ariaExpanded[LastItem] = accHist.aria0

\* The second of two activations has closed the item the first had opened,
\* while another item is open.
C13_Witness ==
    /\ accHist.seq = 2
    /\ accHist.did = "close"
    /\ isActive # {}

\* C14: when closeAccordionItem runs on an item right after
\* openAccordionItem ran on it, the item ends with aria-expanded "false",
\* panel height 0 and without the active class.
C14_OpenThenClose ==
    accHist.afterOpen =>
        /\ ariaExpanded[LastItem] = "false"
        /\ panelHeight[LastItem] = 0
        /\ LastItem \notin isActive

\* Escape has closed the item that the event before it had opened.
C14_Witness ==
    /\ accHist.afterOpen
    /\ accHist.kind = "keydown"
    /\ accHist.from = Header(LastItem)
    /\ accGen > 0

\* C15: a step that opens or closes item N (by a toggle or by Escape) leaves
\* the active class, the panel height and aria-expanded of every other item
\* as they were.
C15_OtherItemsUntouched ==
    [][accHist'.did # "" =>
          \A m \in CurrentItems :
              m.k # accHist'.item =>
                  /\ (m \in isActive') <=> (m \in isActive)
                  /\ panelHeight'[m] = panelHeight[m]
                  /\ ariaExpanded'[m] = ariaExpanded[m]]_vars

\* An item has been opened while another one was open: both are open.
C15_Witness ==
    /\ accHist.did = "open"
    /\ LastItem \in isActive
    /\ Cardinality(isActive) >= 2

\* C16: as long as no panel has been removed from the document, after any
\* toggle, Escape, arrow-key, resize (and view swap) every item has
\* aria-expanded "true" exactly when it carries the active class, and every
\* item without the class has panel height 0.
C16_AriaFollowsActiveClass ==
    panelRemoved = {} =>
        \A it \in CurrentItems :
            /\ (ariaExpanded[it] = "true") <=> (it \in isActive)
            /\ it \notin isActive => panelHeight[it] = 0

\* A resize has run while one item was open and another one, opened and
\* closed before, was closed.
C16_Witness ==
    /\ accHist.kind = "resize"
    /\ panelRemoved = {}
    /\ isActive # {}
    /\ \E it \in CurrentItems : it \notin isActive /\ toggleIcon[it] = "plus"

\* C17: a resize sets the panel height of every open item to the natural
\* height of its content at the new width, and leaves the height of every
\* closed item and the set of open items as they were.
C17_ResizeRecomputesOpenItems ==
    [][accHist'.kind = "resize" =>
          /\ isActive' = isActive
          /\ \A it \in CurrentItems :
                HasPanel(it) =>
                    panelHeight'[it] = IF it \in isActive
                                       THEN LayoutHeight(it.k, viewport')
                                       ELSE panelHeight[it]]_vars

\* C18: Escape with the focus inside an open item (whose panel is in the
\* document) closes that item and puts the focus on its header; Escape with
\* the focus inside a closed item or outside every item changes no item
\* and leaves the focus where it was.
C18_EscapeClosesOpenItem ==
    [][(accHist'.kind = "keydown" /\ accHist'.key = "Escape") =>
          IF accFocus.kind # "body" /\ ItemOf(accFocus) \in isActive
          THEN HasPanel(ItemOf(accFocus)) =>
                   /\ isActive' = isActive \ {ItemOf(accFocus)}
                   /\ ariaExpanded'[ItemOf(accFocus)] = "false"
                   /\ panelHeight'[ItemOf(accFocus)] = 0
                   /\ accFocus' = Header(ItemOf(accFocus))
          ELSE /\ UNCHANGED ItemView
               /\ accFocus' = accFocus]_vars

\* Escape, pressed inside the panel of an open item, has closed it.
C18_Witness ==
    /\ accHist.kind = "keydown"
    /\ accHist.key = "Escape"
    /\ accHist.did = "close"
    /\ accHist.from.kind = "panel"
    /\ accFocus = Header(LastItem)

\* C19: in the document the script was loaded in, the N-th item has header
\* id accordion-item{N} and panel id item{N}, aria-controls names the panel
\* and aria-labelledby the header, and no two of the ids are equal.
C19_PairedIds ==
    accGen = 0 =>
        /\ \A it \in CurrentItems :
              /\ itemIds[it].headerId = <<"accordion-item", it.k>>
              /\ itemIds[it].panelId = <<"item", it.k>>
              /\ itemIds[it].ariaControls = itemIds[it].panelId
              /\ itemIds[it].ariaLabelledby = itemIds[it].headerId
        /\ \A a, b \in CurrentItems :
              /\ a # b => /\ itemIds[a].headerId # itemIds[b].headerId
                          /\ itemIds[a].panelId # itemIds[b].panelId
              /\ itemIds[a].headerId # itemIds[b].panelId

\* The page has as many items as the bound allows and they have been used.
C19_Witness ==
    /\ accGen = 0
    /\ ItemCount(accLayout) = MaxAccItems
    /\ accHist.kind = "toggle"
    /\ itemIds[Item(0, MaxAccItems)].headerId = <<"accordion-item", MaxAccItems>>

-----------------------------------------------------------------------------
\* The dark-mode controller (src/src/DarkMode.astro).

\* localStorage.getItem returns null when there is no entry.
Null == "null"
\* What the entry can hold: nothing, the two values the script writes, or
\* any other string ("auto" stands for these).
StoredValues == {Null, "enabled", "disabled", "auto"}

\* DarkMode.astro:5-13: the button as rendered, and a body without the class.
MarkupToggle == [ariaPressed |-> "false", icon |-> "moon"]

DmMachine == [body |-> bodyClass, toggle |-> darkModeToggle, storage |-> localStorage,
              prefers |-> prefersDarkMode, darkMode |-> darkMode]

DmCommit(st) ==
    /\ bodyClass' = st.body
    /\ darkModeToggle' = st.toggle
    /\ localStorage' = st.storage
    /\ darkMode' = st.darkMode

\* DarkMode.astro:34-50
enableDarkModeKeepsAria(store, st) ==
    [st EXCEPT !.body = TRUE,
               !.toggle = [ariaPressed |-> @.ariaPressed, icon |-> "sun"],
               !.storage = IF store THEN "enabled" ELSE @]

enableDarkMode(store, st) ==
    [st EXCEPT !.body = TRUE,
               !.toggle = [ariaPressed |-> "true", icon |-> "sun"],
               !.storage = IF store THEN "enabled" ELSE @]

\* DarkMode.astro:58-78
disableDarkModeNeverStores(store, st) ==
    [st EXCEPT !.body = FALSE,
               !.toggle = [ariaPressed |-> "false", icon |-> "moon"]]

disableDarkMode(store, st) ==
    [st EXCEPT !.body = FALSE,
               !.toggle = [ariaPressed |-> "false", icon |-> "moon"],
               !.storage = IF store THEN "disabled" ELSE @]

\* DarkMode.astro:85-97
checkPreferenceStoresEnabled(store, st) ==
    IF st.prefers THEN enableDarkMode(TRUE, st) ELSE disableDarkMode(store, st)

checkPreferenceStoresDisabled(store, st) ==
    IF st.prefers THEN enableDarkMode(FALSE, st) ELSE disableDarkMode(TRUE, st)

checkPreference(store, st) ==
    IF st.prefers THEN enableDarkMode(FALSE, st) ELSE disableDarkMode(store, st)

\* DarkMode.astro:103-119 and 162-167: the branch on the script's variable.
resolveDarkMode(st) ==
    IF st.darkMode = "enabled" THEN enableDarkMode(TRUE, st)
    ELSE IF st.darkMode = "disabled" THEN disableDarkMode(TRUE, st)
    ELSE checkPreference(FALSE, st)

\* DarkMode.astro:20-119: the script at load.
loadDarkMode(st) == resolveDarkMode([st EXCEPT !.darkMode = st.storage])

\* DarkMode.astro:126-137
clickListenerNoStore(st) ==
    LET isDarkMode == st.body
    IN  IF isDarkMode THEN disableDarkMode(FALSE, st) ELSE enableDarkMode(FALSE, st)

clickListener(st) ==
    LET isDarkMode == st.body
    IN  IF isDarkMode THEN disableDarkMode(TRUE, st) ELSE enableDarkMode(TRUE, st)

\* DarkMode.astro:144-168; every stored string modelled is non-empty (truthy).
afterSwapListenerFollowsSystem(st) ==
    checkPreference(FALSE, [st EXCEPT !.darkMode = Null])

afterSwapListener(st) ==
    LET darkModeFromStorage == st.storage
    IN  resolveDarkMode([st EXCEPT !.darkMode = IF darkModeFromStorage # Null
                                                 THEN darkModeFromStorage ELSE Null])

\* What the user sees: the body class, aria-pressed and the glyph.
DmView(st) == <<st.body, st.toggle.ariaPressed, st.toggle.icon>>

\* kind: the event; stored0: the entry before the load, the swap or the
\* first of the clicks; view0: what was seen before the first of the clicks.
DmEvent(kind) == [kind |-> kind, clicks |-> 0, view0 |-> <<>>, stored0 |-> Null]

InitDarkModeWidget ==
    /\ prefersDarkMode \in BOOLEAN
    /\ \E stored \in StoredValues :
          LET st == loadDarkMode([body |-> FALSE, toggle |-> MarkupToggle, storage |-> stored,
                                  prefers |-> prefersDarkMode, darkMode |-> Null])
          IN  /\ bodyClass = st.body
              /\ darkModeToggle = st.toggle
              /\ localStorage = st.storage
              /\ darkMode = st.darkMode
              /\ dmHist = [DmEvent("load") EXCEPT !.stored0 = stored]

InitDarkMode == InitDarkModeWidget /\ ModalIdle /\ AccordionIdle /\ SkipLinksIdle

\* The user clicks the toggle.  clicks counts the clicks since the last other
\* event, up to 2; view0 / stored0 are what was seen / stored before them.
DmClick ==
    /\ DmCommit(clickListener(DmMachine))
    /\ dmHist' = IF dmHist.kind = "click" /\ dmHist.clicks = 1
                 THEN [dmHist EXCEPT !.clicks = 2]
                 ELSE [kind |-> "click", clicks |-> 1, view0 |-> DmView(DmMachine),
                       stored0 |-> localStorage]
    /\ UNCHANGED <<prefersDarkMode, modalVars, accVars, skVars>>

\* A view swap: the body is replaced by the new page's (without the class),
\* the button persists (transition:persist), then astro:after-swap fires.
DmSwap ==
    /\ DmCommit(afterSwapListener([DmMachine EXCEPT !.body = FALSE]))
    /\ dmHist' = [DmEvent("swap") EXCEPT !.stored0 = localStorage]
    /\ UNCHANGED <<prefersDarkMode, modalVars, accVars, skVars>>

\* Another tab of the origin (or the user) writes or removes the entry.
DmStorageChange(value) ==
    /\ value # localStorage
    /\ localStorage' = value
    /\ dmHist' = DmEvent("storage")
    /\ UNCHANGED <<prefersDarkMode, darkMode, bodyClass, darkModeToggle, modalVars, accVars, skVars>>

\* The OS colour scheme changes; the script has no listener for it.
DmSchemeChange ==
    /\ prefersDarkMode' = ~prefersDarkMode
    /\ dmHist' = DmEvent("scheme")
    /\ UNCHANGED <<localStorage, darkMode, bodyClass, darkModeToggle, modalVars, accVars, skVars>>

NextDarkMode ==
    \/ DmClick
    \/ DmSwap
    \/ \E value \in StoredValues : DmStorageChange(value)
    \/ DmSchemeChange

SpecDarkMode == InitDarkMode /\ [][NextDarkMode]_vars

-----------------------------------------------------------------------------
\* Properties of the dark-mode controller.

\* The value the script stores for a visual state.
StoredFor(dark) == IF dark THEN "enabled" ELSE "disabled"

\* C20: two clicks on the toggle bring back the visual state and the
\* stored value there were before them, also when nothing was stored and
\* the state had been resolved from the OS preference.
C20_TwoClicksRestoreViewAndStorage ==
    dmHist.clicks = 2 =>
        /\ DmView(DmMachine) = dmHist.view0
        /\ localStorage = dmHist.stored0

\* C20 as amended: two clicks bring back the visual state, and leave stored
\* the value that names it; this is the value stored before them whenever
\* that value named the starting state.
C20_TwoClicksRestoreView ==
    dmHist.clicks = 2 =>
        /\ DmView(DmMachine) = dmHist.view0
        /\ localStorage = StoredFor(bodyClass)
        /\ dmHist.stored0 = StoredFor(dmHist.view0[1]) => localStorage = dmHist.stored0

\* Two clicks have been made from the dark state resolved from the OS
\* preference with nothing stored.
C20_Witness ==
    /\ dmHist.clicks = 2
    /\ dmHist.stored0 = Null
    /\ bodyClass
    /\ prefersDarkMode

\* C21: the load resolves the state from the stored value first: "enabled"
\* gives the dark state and "disabled" the light state whatever the OS
\* prefers; with no entry the state is dark exactly when the OS prefers a
\* dark scheme, and no entry is written.
C21_LoadResolvesStoredThenSystem ==
    dmHist.kind = "load" =>
        /\ dmHist.stored0 = "enabled" => DmView(DmMachine) = <<TRUE, "true", "sun">>
        /\ dmHist.stored0 = "disabled" => DmView(DmMachine) = <<FALSE, "false", "moon">>
        /\ dmHist.stored0 = Null =>
              /\ bodyClass <=> prefersDarkMode
              /\ localStorage = Null

\* The page has been loaded with no entry while the OS prefers dark.
C21_Witness ==
    /\ dmHist.kind = "load"
    /\ dmHist.stored0 = Null
    /\ prefersDarkMode
    /\ bodyClass
    /\ localStorage = Null

\* The state a load of the page would resolve from an entry and an OS preference.
LoadedFrom(stored, prefers) ==
    loadDarkMode([body |-> FALSE, toggle |-> MarkupToggle, storage |-> stored,
                  prefers |-> prefers, darkMode |-> Null])

\* C22: after a view swap the state is the one a load would resolve from
\* the same entry and OS preference, and with "enabled" or "disabled"
\* stored it does not depend on the OS preference.
C22_SwapResolvesAsLoad ==
    dmHist.kind = "swap" =>
        /\ DmMachine = LoadedFrom(dmHist.stored0, prefersDarkMode)
        /\ dmHist.stored0 = "enabled" => bodyClass
        /\ dmHist.stored0 = "disabled" => ~bodyClass

\* A swap has resolved the light state from a stored "disabled" although
\* the OS prefers dark.
C22_Witness ==
    /\ dmHist.kind = "swap"
    /\ dmHist.stored0 = "disabled"
    /\ prefersDarkMode
    /\ ~bodyClass

\* C23: a click flips the visual state, and stores "enabled" when the new
\* state is dark and "disabled" when it is light.
C23_ClickFlipsAndPersists ==
    [][dmHist'.kind = "click" =>
          /\ bodyClass' = ~bodyClass
          /\ localStorage' = StoredFor(bodyClass')]_vars

\* A click has switched dark mode off while the entry said something else.
C23_Witness ==
    /\ dmHist.kind = "click"
    /\ dmHist.clicks = 1
    /\ dmHist.stored0 # "enabled"
    /\ ~bodyClass
    /\ localStorage = "disabled"

\* C24: the load leaves the entry as it found it, a view swap leaves it as
\* it is, and a step of the controller that changes it is a click that
\* writes "enabled" or "disabled".
C24_OnlyClicksChangeTheEntry ==
    /\ [](dmHist.kind = "load" => localStorage = dmHist.stored0)
    /\ [][/\ dmHist'.kind = "swap" => localStorage' = localStorage
          /\ (localStorage' # localStorage /\ dmHist'.kind # "storage") =>
                /\ dmHist'.kind = "click"
                /\ localStorage' \in {"enabled", "disabled"}]_vars

\* A swap has resolved the light state from the OS preference, with no entry.
C24_Witness ==
    /\ dmHist.kind = "swap"
    /\ dmHist.stored0 = Null
    /\ localStorage = Null
    /\ ~bodyClass

\* C25: after the load and after every click and view swap, aria-pressed
\* of the toggle is "true" exactly when the body carries the darkmode class.
C25_AriaPressedFollowsBodyClass ==
    (darkModeToggle.ariaPressed = "true") <=> bodyClass

\* A swap has resolved the dark state from a stored "enabled".
C25_Witness ==
    /\ dmHist.kind = "swap"
    /\ bodyClass
    /\ darkModeToggle.ariaPressed = "true"
    /\ localStorage = "enabled"

-----------------------------------------------------------------------------
\* The skip link (src/src/SkipLinks.astro).

\* The href prop of the component and the ids a page may carry.
Hrefs == {"#main-content", "#content"}
Ids == {"main-content", "content"}
SkPages == [ids : SUBSET Ids, focusable : BOOLEAN, h1 : BOOLEAN]

\* SkipLinks.astro:19: the script is a module, and at the top level of a
\* module `this` is undefined.
ModuleThis == "undefined"

\* SkipLinks.astro:27: `this.dataset` of undefined is a TypeError, which ends
\* the script before the listener of line 44 is added.  (On an element
\* carrying line 15's data-classname the value would be the literal
\* "{className}", and `.{className} a` is not a selector either.)
loadSkipLinks ==
    LET error == IF ModuleThis = "undefined" THEN "TypeError" ELSE "SyntaxError"
    IN  [threw |-> error, skipLink |-> "unassigned", listener |-> FALSE]

\* document.querySelector('#id'): the element with that id (named by its
\* id), or null.
SkQuerySelector(selector) ==
    LET id == IF selector = "#main-content" THEN "main-content" ELSE "content"
    IN  IF id \in skPage.ids THEN id ELSE "null"

SkMachine == [focus |-> skFocus, tabIndex |-> skTabIndex, warned |-> FALSE]

\* SkipLinks.astro:44-79
skipLinkKeydown(key, st) ==
    IF key # "Enter" THEN st
    ELSE LET target == skHref
             targetElement == SkQuerySelector(target)
         IN  IF targetElement # "null"
             THEN [st EXCEPT !.tabIndex = @ \cup {targetElement}, !.focus = targetElement]
             ELSE IF skPage.h1
                  THEN [st EXCEPT !.tabIndex = @ \cup {"h1"}, !.focus = "h1"]
                  ELSE [st EXCEPT !.warned = TRUE]

\* The default action of Enter on the anchor, which the listener does not
\* prevent: navigation to the fragment.  A focusable target gets the focus;
\* with a target that is not focusable the user agent moves the focus to
\* the viewport or leaves it on the anchor; without a target nothing moves.
DefaultEnter(st) ==
    LET targetElement == SkQuerySelector(skHref)
    IN  IF targetElement = "null" THEN {st.focus}
        ELSE IF skPage.focusable \/ targetElement \in st.tabIndex THEN {targetElement}
             ELSE {"body", st.focus}

SkKeys == {"Enter", " ", "Escape"}

SkEvent(kind) == [kind |-> kind, key |-> "", from |-> "body", warned |-> FALSE]

InitSkipLinksWidget ==
    /\ skHref \in Hrefs
    /\ skPage \in SkPages
    /\ skipLink = loadSkipLinks.skipLink
    /\ skListener = loadSkipLinks.listener
    /\ skTabIndex = {}
    /\ skFocus = "body"
    /\ skHist = SkEvent("load")

InitSkipLinks == InitSkipLinksWidget /\ ModalIdle /\ AccordionIdle /\ DarkModeIdle

\* The user tabs to the skip link, the first focusable element of the page.
SkFocusLink ==
    /\ skFocus # "link"
    /\ skFocus' = "link"
    /\ skHist' = SkEvent("focus")
    /\ UNCHANGED <<skHref, skPage, skipLink, skListener, skTabIndex,
                   modalVars, accVars, dmVars>>

\* A key is pressed on the skip link: the listener, if there is one, then
\* the default action.
SkKeyDown(key) ==
    /\ skFocus = "link"
    /\ LET st == IF skListener THEN skipLinkKeydown(key, SkMachine) ELSE SkMachine
       IN  /\ skFocus' \in (IF key = "Enter" THEN DefaultEnter(st) ELSE {st.focus})
           /\ skTabIndex' = st.tabIndex
           /\ skHist' = [kind |-> "keydown", key |-> key, from |-> skFocus,
                         warned |-> st.warned]
    /\ UNCHANGED <<skHref, skPage, skipLink, skListener, modalVars, accVars, dmVars>>

\* The user clicks into the page: the focus leaves the link.
SkBlur ==
    /\ skFocus # "body"
    /\ skFocus' = "body"
    /\ skHist' = SkEvent("blur")
    /\ UNCHANGED <<skHref, skPage, skipLink, skListener, skTabIndex,
                   modalVars, accVars, dmVars>>

\* A view swap: the anchor and the content are replaced; the module script
\* is not evaluated again, so the new anchor has no listener.
SkSwap(newPage) ==
    /\ skPage' = newPage
    /\ skListener' = FALSE
    /\ skTabIndex' = {}
    /\ skFocus' = "body"
    /\ skHist' = SkEvent("swap")
    /\ UNCHANGED <<skHref, skipLink, modalVars, accVars, dmVars>>

NextSkipLinks ==
    \/ SkFocusLink
    \/ \E key \in SkKeys : SkKeyDown(key)
    \/ SkBlur
    \/ \E newPage \in SkPages : SkSwap(newPage)

SpecSkipLinks == InitSkipLinks /\ [][NextSkipLinks]_vars

-----------------------------------------------------------------------------
\* Properties of the skip link.

\* C26: Enter on the skip link moves the focus to the element the href
\* names if the page has one, else to the h1 if the page has one, else
\* leaves the focus where it is and emits the diagnostic; any other key
\* leaves the focus where it is.
C26_SkipLinkFallbackChain ==
    skHist.kind = "keydown" =>
        IF skHist.key = "Enter"
        THEN IF SkQuerySelector(skHref) # "null"
             THEN skFocus = SkQuerySelector(skHref)
             ELSE IF skPage.h1
                  THEN skFocus = "h1"
                  ELSE skFocus = skHist.from /\ skHist.warned
        ELSE skFocus = skHist.from

====
